---------------------------- MODULE Spec2Model ----------------------------
(***************************************************************************)
(* TDEE estimation service: the daily job (src/main.py), the Kalman        *)
(* estimator (src/services/tdee_estimator.py), the Firestore access layer  *)
(* (src/services/firestore.py) and the pydantic record types (src/models). *)
(*                                                                         *)
(* Numbers.  The program computes in IEEE doubles; the model computes in   *)
(* exact rationals <<n, d>> (d > 0, lowest terms) and has one non-finite   *)
(* value NaN == <<0, 0>> standing for nan/inf.  To keep the rationals      *)
(* small the model measures energy in units of 50 kcal and weight in units *)
(* of 1/154 kg (Kcal, Kg, Kcal2, Kg2 convert): in these units one unit of  *)
(* energy surplus is one unit of weight, so the transition matrix has      *)
(* integer entries.  Weights are counted from a reference of 70 kg (Kg(70, *)
(* 1) is <<0, 1>>, Kg(0, 1) is the weight 0.0 kg, KgOf converts back): the *)
(* filter is affine in the weight, so the change of origin and of units is *)
(* exact; variances are not shifted.                                       *)
(*                                                                         *)
(* Dates are day numbers (integers); weekday(d) is d modulo 7.             *)
(*                                                                         *)
(* Optional values (None in Python) are sequences: << >> is None and       *)
(* <<v>> is the value v.                                                   *)
(***************************************************************************)
EXTENDS Integers, Sequences, FiniteSets, TLC

\* ------------------------------------------------------------------------
\* Exact rational arithmetic with a non-finite value
\* ------------------------------------------------------------------------

Abs(n) == IF n < 0 THEN -n ELSE n

RECURSIVE GCD(_, _)
GCD(a, b) == IF b = 0 THEN a ELSE GCD(b, a % b)

NaN == <<0, 0>>

IsFinite(x) == x[2] # 0

Frac(n, d) ==
    IF d = 0 THEN NaN
    ELSE LET g == GCD(Abs(n), Abs(d))
             s == IF d < 0 THEN -1 ELSE 1
         IN  <<s * (n \div g), s * (d \div g)>>

Zero == <<0, 1>>
One == <<1, 1>>

FNeg(x) == IF IsFinite(x) THEN <<-x[1], x[2]>> ELSE NaN

FAdd(x, y) ==
    IF ~IsFinite(x) \/ ~IsFinite(y) THEN NaN
    ELSE LET g == GCD(x[2], y[2])
         IN  Frac(x[1] * (y[2] \div g) + y[1] * (x[2] \div g), x[2] * (y[2] \div g))

FSub(x, y) == FAdd(x, FNeg(y))

FMul(x, y) ==
    IF ~IsFinite(x) \/ ~IsFinite(y) THEN NaN
    ELSE LET g1 == GCD(Abs(x[1]), y[2])
             g2 == GCD(Abs(y[1]), x[2])
         IN  Frac((x[1] \div g1) * (y[1] \div g2), (x[2] \div g2) * (y[2] \div g1))

\* numpy float64 division: dividing by zero warns and yields inf or nan
FDiv(x, y) ==
    IF ~IsFinite(x) \/ ~IsFinite(y) \/ y[1] = 0 THEN NaN
    ELSE FMul(x, IF y[1] < 0 THEN <<-y[2], -y[1]>> ELSE <<y[2], y[1]>>)

\* Python comparisons: every comparison with nan is False
\* (x < y compares the integer parts, then the fractional parts)
FLess(x, y) ==
    /\ IsFinite(x) /\ IsFinite(y)
    /\ \/ x[1] \div x[2] < y[1] \div y[2]
       \/ /\ x[1] \div x[2] = y[1] \div y[2]
          /\ (x[1] % x[2]) * y[2] < (y[1] % y[2]) * x[2]

FLeq(x, y) == IsFinite(x) /\ IsFinite(y) /\ (x = y \/ FLess(x, y))
FEq(x, y) == IsFinite(x) /\ IsFinite(y) /\ x = y

RECURSIVE FSum(_)
FSum(s) == IF s = << >> THEN Zero ELSE FAdd(Head(s), FSum(Tail(s)))

\* units: n kcal, n/d kg (from the 70 kg reference), n kcal^2, n/d kg^2
Kcal(n) == Frac(n, 50)
Kg(n, d) == Frac(154 * (n - 70 * d), d)
KgOf(x) == FAdd(Frac(70, 1), FDiv(x, Frac(154, 1)))
Kcal2(n) == Frac(n, 50 * 50)
Kg2(n, d) == Frac(154 * 154 * n, d)

\* ------------------------------------------------------------------------
\* src/config.py
\* ------------------------------------------------------------------------

MIN_PLAUSIBLE_INTAKE_RATIO == Frac(6, 10)
PROCESS_NOISE_VAR_TDEE == Kcal2(50 * 50)
CALORIE_INTAKE_UNCERTAINTY_VAR == Kcal2(200 * 200)
MEASUREMENT_NOISE_VAR_WEIGHT == Kg2(1, 4)
INITIAL_ACTIVITY_MULTIPLIER_UNCERTAINTY == Frac(1, 4)
INITIAL_WEIGHT_UNCERTAINTY == Kg2(1, 100)
Z_SCORE_FOR_BOUNDS == Frac(196, 100)
\* 7700 kcal per kg = 154 energy units per 154 weight units
KCAL_PER_KG_BODY_WEIGHT == FDiv(Kcal(7700), Frac(154, 1))
DEFAULT_ACTIVITY_LEVEL == Frac(12, 10)

ACTIVITY_LEVEL_MAPPING(level) ==
    CASE level = "sedentary" -> Frac(12, 10)
      [] level = "lightly_active" -> Frac(1375, 1000)
      [] level = "moderately_active" -> Frac(155, 100)
      [] level = "very_active" -> Frac(1725, 1000)
      [] level = "extra_active" -> Frac(19, 10)
      [] OTHER -> DEFAULT_ACTIVITY_LEVEL

\* ------------------------------------------------------------------------
\* src/utils/bmr_calculator.py
\* ------------------------------------------------------------------------

\* weight_kg arrives in weight units, the result leaves in energy units
calculate_mifflin_st_jeor_bmr(sex, age, height_cm, weight_kg) ==
    LET w == KgOf(weight_kg)
        base == FAdd(FMul(Frac(10, 1), w),
                     FSub(FMul(Frac(625, 100), height_cm), FMul(Frac(5, 1), Frac(age, 1))))
        kcal == IF sex = "male" THEN FAdd(base, Frac(5, 1)) ELSE FSub(base, Frac(161, 1))
    IN  FMul(kcal, Kcal(1))


\* ------------------------------------------------------------------------
\* src/services/tdee_estimator.py
\* An estimator is [state |-> <<weight, tdee>>, covariance |-> 2x2 matrix].
\* ------------------------------------------------------------------------

MatMul(A, B) ==
    [i \in 1..2 |-> [j \in 1..2 |->
        FAdd(FMul(A[i][1], B[1][j]), FMul(A[i][2], B[2][j]))]]

MatAdd(A, B) == [i \in 1..2 |-> [j \in 1..2 |-> FAdd(A[i][j], B[i][j])]]

MatT(A) == [i \in 1..2 |-> [j \in 1..2 |-> A[j][i]]]

MatFinite(A) == \A i \in 1..2 : \A j \in 1..2 : IsFinite(A[i][j])

TDEEEstimator(prev_state, prev_covariance) ==
    [state |-> prev_state, covariance |-> prev_covariance]

F == <<<<One, FNeg(FDiv(One, KCAL_PER_KG_BODY_WEIGHT))>>, <<Zero, One>>>>

R == MEASUREMENT_NOISE_VAR_WEIGHT

ProcessNoiseQ ==
    LET weight_variance_from_calories ==
            FDiv(CALORIE_INTAKE_UNCERTAINTY_VAR,
                 FMul(KCAL_PER_KG_BODY_WEIGHT, KCAL_PER_KG_BODY_WEIGHT))
    IN  <<<<weight_variance_from_calories, Zero>>, <<Zero, PROCESS_NOISE_VAR_TDEE>>>>

\* a predict that forgets to subtract the TDEE from the intake
predict_IntakeOnly(est, kcal_intake) ==
    LET prev_weight == est.state[1]
        prev_tdee == est.state[2]
        weight_change == FDiv(kcal_intake, KCAL_PER_KG_BODY_WEIGHT)
    IN  [state |-> <<FAdd(prev_weight, weight_change), prev_tdee>>,
         covariance |-> MatAdd(MatMul(MatMul(F, est.covariance), MatT(F)), ProcessNoiseQ)]

predict(est, kcal_intake) ==
    LET prev_weight == est.state[1]
        prev_tdee == est.state[2]
        weight_change == FDiv(FSub(kcal_intake, prev_tdee), KCAL_PER_KG_BODY_WEIGHT)
    IN  [state |-> <<FAdd(prev_weight, weight_change), prev_tdee>>,
         covariance |-> MatAdd(MatMul(MatMul(F, est.covariance), MatT(F)), ProcessNoiseQ)]

\* S = H P H^T + R with H = [1, 0]
InnovationS(est) == FAdd(est.covariance[1][1], R)

\* np.linalg.inv raises LinAlgError on a singular matrix and on nothing else:
\* a negative or a non-finite S is inverted without complaint
UpdateRaises(est) == InnovationS(est) = Zero

\* an update with the gain applied the wrong way round: (I + K H) P
update_AddsGain(est, measured_weight_kg) ==
    LET y == FSub(measured_weight_kg, est.state[1])
        Sinv == FDiv(One, InnovationS(est))
        K == <<FMul(est.covariance[1][1], Sinv), FMul(est.covariance[2][1], Sinv)>>
        IKH == <<<<FAdd(One, K[1]), Zero>>, <<K[2], One>>>>
    IN  [state |-> <<FAdd(est.state[1], FMul(K[1], y)), FAdd(est.state[2], FMul(K[2], y))>>,
         covariance |-> MatMul(IKH, est.covariance)]

update(est, measured_weight_kg) ==
    LET y == FSub(measured_weight_kg, est.state[1])
        Sinv == FDiv(One, InnovationS(est))
        K == <<FMul(est.covariance[1][1], Sinv), FMul(est.covariance[2][1], Sinv)>>
        IKH == <<<<FSub(One, K[1]), Zero>>, <<FNeg(K[2]), One>>>>
    IN  [state |-> <<FAdd(est.state[1], FMul(K[1], y)), FAdd(est.state[2], FMul(K[2], y))>>,
         covariance |-> MatMul(IKH, est.covariance)]

\* current_tdee -/+ Z * sqrt(P[1,1]).  The square root is kept symbolic: a bound
\* is [centre, side, z, variance], standing for centre -/+ z * sqrt(variance)
\* (np.sqrt of a negative or non-finite variance is nan).
Bound(centre, side, variance) ==
    [centre |-> centre, side |-> side, z |-> Z_SCORE_FOR_BOUNDS,
     variance |-> IF IsFinite(variance) /\ variance[1] >= 0 THEN variance ELSE NaN]

get_bounds(est) ==
    LET tdee_variance == est.covariance[2][2]
        current_tdee == est.state[2]
    IN  <<Bound(current_tdee, "lower", tdee_variance),
          Bound(current_tdee, "upper", tdee_variance)>>

\* TDEEEstimator defines get_bounds and no get_weight_bounds
HasGetWeightBounds == FALSE

\* ------------------------------------------------------------------------
\* src/models
\* ------------------------------------------------------------------------

\* UserInDB declares uid, email, name, created_at, onboarding_complete, profile,
\* nutrition_targets, log_streak, last_activity_at; created_at and
\* onboarding_complete are required.  A document without createdAt fails validation.
UserInDBValid(doc) == doc.createdAt # << >>

\* TDEEHistory.covariance_matrix is List[List[float]]: a list whose items are
\* floats (a flat list) is rejected by validation
TDEEHistoryCovarianceValid(cov) == cov.shape = "nested"

\* TDEEHistory.date is a datetime.date: validation turns a midnight datetime
\* into a date, which has no .date() method
TDEEHistoryDateType == "date"

\* covariance.flatten().tolist()
Flatten(P) == [shape |-> "flat", v |-> <<P[1][1], P[1][2], P[2][1], P[2][2]>>]

\* np.array(covariance_matrix).reshape(2, 2)
Reshape22(cov) == <<<<cov.v[1], cov.v[2]>>, <<cov.v[3], cov.v[4]>>>>

\* ------------------------------------------------------------------------
\* Helpers on finite sets of days and sequences
\* ------------------------------------------------------------------------

MinOf(S) == CHOOSE x \in S : \A y \in S : x <= y
MaxOf(S) == CHOOSE x \in S : \A y \in S : y <= x

RECURSIVE SortedSeq(_)
SortedSeq(S) == IF S = {} THEN << >> ELSE <<MinOf(S)>> \o SortedSeq(S \ {MinOf(S)})

weekday(d) == d % 7

\* ------------------------------------------------------------------------
\* src/services/firestore.py
\* ------------------------------------------------------------------------

VARIABLES
    today,           \* date.today()
    usersColl,       \* the "users" collection, in __name__ order
    mealLogs,        \* users/{uid}/mealLogs
    weightLogs,      \* users/{uid}/weightLogs
    tdeeHistory,     \* users/{uid}/tdeeHistory: doc id (the date) -> document
    weightForecast,  \* the forecast stored per user (<< >>: none)
    job,             \* run_daily_job: pc, user_count, the get_all_users generator
    runs,            \* how many times the job has been started
    upc,             \* process_user: where the current call stands
    user,            \* process_user: its user argument
    pu,              \* process_user: its local variables
    outcome,         \* per user: how the last process_user call ended, and where
    attempted,       \* users process_user has been called for in this job run
    readCkpt,        \* per user: the last call read the checkpoint
    handed,          \* per user: (state, covariance) the last call gave the forecast stage
    prevRun          \* per user: start date and end of the previous call that entered the day loop

vars == <<today, usersColl, mealLogs, weightLogs, tdeeHistory, weightForecast, job,
          runs, upc, user, pu, outcome, attempted, readCkpt, handed, prevRun>>

page_size == 1000

\* users_ref.order_by("__name__").limit(page_size), after the cursor if there is one;
\* documents are named by their position in usersColl, the cursor is a position
UsersPage(cursor) ==
    SubSeq(usersColl, cursor + 1,
           IF cursor + page_size < Len(usersColl) THEN cursor + page_size ELSE Len(usersColl))

\* One resumption of get_all_users: the generator is [cursor, docs, i] (i documents
\* of the page docs have been yielded).  The result is the generator's new state and
\* what it does: "stop", "raise" (UserInDB validation failed) or "yield" a user.
get_all_users(gen) ==
    LET refill == gen.i >= Len(gen.docs)
        cursor == IF refill THEN gen.cursor + Len(gen.docs) ELSE gen.cursor
        docs == IF refill THEN UsersPage(cursor) ELSE gen.docs
        i == IF refill THEN 0 ELSE gen.i
    IN  IF docs = << >>
        THEN [gen |-> [cursor |-> cursor, docs |-> docs, i |-> 0], does |-> "stop", doc |-> << >>]
        ELSE [gen |-> [cursor |-> cursor, docs |-> docs, i |-> i + 1],
              does |-> IF UserInDBValid(docs[i + 1]) THEN "yield" ELSE "raise",
              doc |-> <<docs[i + 1]>>]

\* UserInDB(uid=doc.id, **doc.to_dict()): fields the model does not declare are
\* dropped, so the object has no current_weight_kg.  usersColl may also hold user
\* objects that do provide the attribute (provides_current_weight_kg), standing for
\* any other caller of process_user.
BuildUser(doc) ==
    [uid |-> doc.id, created_at |-> doc.createdAt[1], profile |-> doc.profile,
     nutrition_targets |-> doc.nutritionTargets,
     has_current_weight_kg |-> doc.provides_current_weight_kg,
     current_weight_kg |-> doc.currentWeightKg]

\* the dict over every day of start_date..end_date: 0.0, plus the energy of each
\* complete meal created that day
get_caloric_intake_for_date_range(uid, start_date, end_date) ==
    LET docs == SelectSeq(mealLogs[uid],
                       LAMBDA m : m.createdAt >= start_date /\ m.createdAt <= end_date
                                  /\ m.status = "complete")
        energy(m) == IF m.energy = << >> THEN Zero ELSE m.energy[1]
    IN  [d \in start_date..end_date |->
            LET meals == SelectSeq(docs, LAMBDA m : m.createdAt = d)
            IN  FSum([k \in 1..Len(meals) |-> energy(meals[k])])]

\* caloric_data.get(d)
CaloricGet(cd, d) == IF d \in DOMAIN cd THEN <<cd[d]>> ELSE << >>

\* date -> mean of the weights logged that day
get_weight_logs_for_date_range(uid, start_date, end_date) ==
    LET docs == SelectSeq(weightLogs[uid],
                       LAMBDA l : l.date >= start_date /\ l.date <= end_date)
        days == {docs[k].date : k \in 1..Len(docs)}
        kg(l) == IF l.weightKg = << >> THEN Zero ELSE l.weightKg[1]
    IN  [d \in days |->
            LET logs == SelectSeq(docs, LAMBDA l : l.date = d)
                weights == [k \in 1..Len(logs) |-> kg(logs[k])]
            IN  FDiv(FSum(weights), Frac(Len(weights), 1))]

\* order_by("date", DESCENDING).limit(1), then TDEEHistory.model_validate:
\* "none", "raise" (validation failed) or the record
get_last_tdee_history(uid) ==
    IF DOMAIN tdeeHistory[uid] = {}
    THEN [does |-> "none", doc |-> << >>]
    ELSE LET doc == tdeeHistory[uid][MaxOf(DOMAIN tdeeHistory[uid])]
         IN  [does |-> IF TDEEHistoryCovarianceValid(doc.covarianceMatrix)
                       THEN "return" ELSE "raise",
              doc |-> <<doc>>]

\* batch.set of every entry under its date, committed at once
save_tdee_history_batch(history, history_entries) ==
    IF history_entries = << >> THEN history
    ELSE LET uid == history_entries[1].uid
             ids == {history_entries[k].date : k \in 1..Len(history_entries)}
         IN  [history EXCEPT ![uid] =
                [d \in DOMAIN history[uid] \cup ids |->
                    IF d \in ids
                    THEN LET k == MaxOf({j \in 1..Len(history_entries) :
                                            history_entries[j].date = d})
                         IN  history_entries[k]
                    ELSE history[uid][d]]]

\* FirestoreService defines no save_weight_forecast
HasSaveWeightForecast == FALSE

\* ------------------------------------------------------------------------
\* src/main.py: pure parts
\* ------------------------------------------------------------------------

get_initial_state(u) ==
    LET profile == u.profile[1]
        initial_weight == u.current_weight_kg[1]
        activity_level_str == IF profile.activity_level # << >>
                              THEN profile.activity_level[1] ELSE "sedentary"
        initial_multiplier == ACTIVITY_LEVEL_MAPPING(activity_level_str)
        bmr == calculate_mifflin_st_jeor_bmr(profile.sex[1], profile.age[1],
                                             profile.height_cm[1], initial_weight)
        initial_tdee == FMul(bmr, initial_multiplier)
        sd == FMul(bmr, INITIAL_ACTIVITY_MULTIPLIER_UNCERTAINTY)
    IN  [state |-> <<initial_weight, initial_tdee>>,
         covariance |-> <<<<INITIAL_WEIGHT_UNCERTAINTY, Zero>>, <<Zero, FMul(sd, sd)>>>>]

\* a window one day short: the seventh day back is left out
InFallbackWindow_SixDays(up_to_date, d) ==
    0 < up_to_date - d /\ up_to_date - d < 7

\* a window that also takes the target day itself
InFallbackWindow_IncludesTarget(up_to_date, d) ==
    0 <= up_to_date - d /\ up_to_date - d <= 7

\* the days whose intake enters the fallback mean for up_to_date
InFallbackWindow(up_to_date, d) == 0 < up_to_date - d /\ up_to_date - d <= 7

_get_fallback_intake(caloric_data, up_to_date, last_known_tdee) ==
    LET days == {d \in DOMAIN caloric_data :
                    /\ FLess(Zero, caloric_data[d])
                    /\ InFallbackWindow(up_to_date, d)}
        relevant_intakes == [k \in 1..Cardinality(days) |-> caloric_data[SortedSeq(days)[k]]]
    IN  IF relevant_intakes # << >>
        THEN FDiv(FSum(relevant_intakes), Frac(Len(relevant_intakes), 1))
        ELSE last_known_tdee

\* 0 < prev_day_intake < last_known_tdee * MIN_PLAUSIBLE_INTAKE_RATIO
IsImplausible(prev_day_intake, last_known_tdee) ==
    /\ prev_day_intake # << >>
    /\ FLess(Zero, prev_day_intake[1])
    /\ FLess(prev_day_intake[1], FMul(last_known_tdee, MIN_PLAUSIBLE_INTAKE_RATIO))

\* process_user, lines 101-110: the intake handed to predict for the day after prev_day
ResolveIntake(caloric_data, prev_day, last_known_tdee) ==
    LET prev_day_intake == CaloricGet(caloric_data, prev_day)
    IN  IF \/ prev_day_intake = << >>
           \/ FEq(prev_day_intake[1], Zero)
           \/ IsImplausible(prev_day_intake, last_known_tdee)
        THEN _get_fallback_intake(caloric_data, prev_day, last_known_tdee)
        ELSE prev_day_intake[1]

\* process_user, lines 163-171: one mean per weekday (index weekday + 1)
DayOfWeekAverages(caloric_data, processing_end_date, fallback_intake) ==
    [w \in 1..7 |->
        LET days == {d \in DOMAIN caloric_data :
                        /\ FLess(Zero, caloric_data[d])
                        /\ processing_end_date - d <= 90
                        /\ weekday(d) = w - 1}
            intakes == [k \in 1..Cardinality(days) |-> caloric_data[SortedSeq(days)[k]]]
        IN  IF intakes # << >>
            THEN FDiv(FSum(intakes), Frac(Len(intakes), 1))
            ELSE fallback_intake]

\* the user's declared intake goal: "Can add this later", always None
assumed_intake_goal(u) == << >>

\* the weight-channel interval, as get_bounds for P[0,0]
get_weight_bounds(est) ==
    <<Bound(est.state[1], "lower", est.covariance[1][1]),
      Bound(est.state[1], "upper", est.covariance[1][1])>>

\* full overwrite of the user's stored forecast
save_weight_forecast(store, uid, future_forecasts) ==
    [store EXCEPT ![uid] = future_forecasts]

\* ------------------------------------------------------------------------
\* Bounds and inputs
\* ------------------------------------------------------------------------

FirstToday == 10    \* the day of the first job run
MaxRuns == 2        \* job runs per behaviour

Uids == <<"u1", "u2">>

NoProfile == << >>
Profile(sex) ==
    <<[sex |-> sex, age |-> <<41>>, height_cm |-> <<Frac(176, 1)>>,
       activity_level |-> << >>]>>

UserDoc(id, createdAt, profile, provides, cw) ==
    [id |-> id, createdAt |-> createdAt, profile |-> profile,
     nutritionTargets |-> << >>,
     provides_current_weight_kg |-> provides, currentWeightKg |-> cw]

\* the document with a daily energy target set
WithEnergyTarget(doc, energy) ==
    [doc EXCEPT !.nutritionTargets = <<[energy |-> <<energy>>]>>]

CreatedDays == {FirstToday - 3, FirstToday - 1}

Meal(day, status, energy) == [createdAt |-> day, status |-> status, energy |-> energy]

\* meal logs around p, the day before the first day to process
MealChoices(p) ==
    { << >>,
      <<Meal(p, "complete", <<Kcal(2000)>>)>>,
      <<Meal(p, "complete", <<Kcal(600)>>), Meal(p, "complete", <<Kcal(400)>>),
        Meal(p - 1, "complete", <<Kcal(2100)>>), Meal(p - 2, "complete", <<Kcal(2300)>>)>>,
      <<Meal(p, "complete", << >>), Meal(p - 1, "pending", <<Kcal(3000)>>),
        Meal(p - 8, "complete", <<Kcal(2500)>>)>>,
      <<Meal(p, "complete", <<Kcal(1152)>>), Meal(p - 7, "complete", <<Kcal(2400)>>)>>,
      <<Meal(p, "complete", <<Kcal(-100)>>), Meal(p - 3, "complete", <<Kcal(1800)>>)>> }

WeightLog(day, kg) == [date |-> day, weightKg |-> kg]

WeightChoices(c) ==
    { << >>,
      <<WeightLog(c, <<Kg(70, 1)>>), WeightLog(c, <<Kg(71, 1)>>)>>,
      <<WeightLog(c, <<NaN>>)>> }

\* a stored history document for day d, its covariance flat (as the driver dumps
\* it) or nested (as TDEEHistory declares it)
HistoryDoc(uid, d, shape) ==
    [uid |-> uid, date |-> d, estimatedTdeeKcal |-> Kcal(2000),
     lowerBoundKcal |-> Bound(Kcal(2000), "lower", Kcal2(10000)),
     upperBoundKcal |-> Bound(Kcal(2000), "upper", Kcal2(10000)),
     isPrediction |-> TRUE, estimatedWeightKg |-> Kg(70, 1),
     activityMultiplier |-> Frac(5, 4),
     covarianceMatrix |-> [shape |-> shape,
                           v |-> <<Kg2(1, 100), Zero, Zero, Kcal2(10000)>>]]

EmptyHistory == [d \in {} |-> 0]

HistoryChoices(uid) ==
    {EmptyHistory}
    \cup {[d \in {day} |-> HistoryDoc(uid, day, shape)] :
            day \in {FirstToday - 4, FirstToday - 2}, shape \in {"flat", "nested"}}

\* What the job can find for one user: the document (or user object), and the
\* user's sub-collections.  The sub-collections are varied only for users whose
\* call gets far enough to read them, and in full for the first user only: the
\* calls for different users share nothing but the job's loop.
UserInputs(uid) ==
    LET none(doc) == [doc |-> doc, meals |-> << >>, weights |-> << >>,
                      history |-> EmptyHistory]
        c0 == FirstToday - 3
        full == uid = Uids[1]
        created == IF full THEN CreatedDays ELSE {c0}
        histories == IF full THEN HistoryChoices(uid) \ {EmptyHistory}
                     ELSE {[d \in {FirstToday - 2} |-> HistoryDoc(uid, d, "flat")]}
        logs == IF full
                THEN UNION {{c} \X MealChoices(c - 1) \X WeightChoices(c) :
                              c \in CreatedDays}
                ELSE {<<c, << >>, << >>>> : c \in CreatedDays}
    IN  { none(UserDoc(uid, << >>, NoProfile, FALSE, << >>)),
          none(UserDoc(uid, <<c0>>, NoProfile, FALSE, << >>)),
          none(UserDoc(uid, <<c0>>, Profile(<<"male">>), FALSE, << >>)),
          none(UserDoc(uid, <<c0>>, Profile(<< >>), TRUE, <<Kg(70, 1)>>)),
          none(UserDoc(uid, <<c0>>, Profile(<<"male">>), TRUE, << >>)) }
        \cup { [doc |-> UserDoc(uid, <<c>>, Profile(<<"male">>), TRUE, <<Kg(70, 1)>>),
                meals |-> << >>, weights |-> << >>, history |-> h] :
               c \in created, h \in histories }
        \cup { [doc |-> UserDoc(uid, <<l[1]>>, Profile(<<"male">>), TRUE, <<Kg(70, 1)>>),
                meals |-> l[2], weights |-> l[3], history |-> EmptyHistory] :
               l \in logs }
        \cup { [doc |-> WithEnergyTarget(
                           UserDoc(uid, <<FirstToday - 1>>, Profile(<<"male">>), TRUE,
                                   <<Kg(70, 1)>>),
                           Kcal(1700)),
                meals |-> m, weights |-> << >>, history |-> EmptyHistory] :
               m \in IF full THEN MealChoices(FirstToday - 3) ELSE {<< >>} }

\* ------------------------------------------------------------------------
\* State
\* ------------------------------------------------------------------------

UidSet == {Uids[k] : k \in 1..Len(Uids)}

EmptySums == [d \in {} |-> Zero]
ZeroMat == <<<<Zero, Zero>>, <<Zero, Zero>>>>

NoUser == [uid |-> "", created_at |-> 0, profile |-> NoProfile,
           nutrition_targets |-> << >>,
           has_current_weight_kg |-> FALSE, current_weight_kg |-> << >>]

\* process_user's locals before the call has set them; entered, saved and hist0
\* record that the call got its start date, that it committed a history batch,
\* and the user's history as the call found it
PuInit ==
    [start_date |-> 0, processing_end_date |-> 0,
     state |-> <<Zero, Zero>>, covariance |-> ZeroMat,
     caloric_data |-> EmptySums,
     weight_data |-> EmptySums, current_date |-> 0, daily_updates |-> << >>,
     prev_day_intake |-> Zero, is_prediction |-> TRUE,
     estimator |-> TDEEEstimator(<<Zero, Zero>>, ZeroMat),
     i |-> 0, final_daily_averages |-> << >>, intake_for_day |-> Zero,
     future_forecasts |-> << >>,
     entered |-> FALSE, saved |-> FALSE, hist0 |-> EmptyHistory]

NoOutcome == [result |-> "none", at |-> "", saved |-> FALSE, hist0 |-> EmptyHistory]

JobInit == [pc |-> "idle", user_count |-> 0,
            gen |-> [cursor |-> 0, docs |-> << >>, i |-> 0], summary |-> << >>]

Init ==
    \E inp \in [UidSet -> UNION {UserInputs(u) : u \in UidSet}] :
        /\ \A u \in UidSet : inp[u] \in UserInputs(u)
        /\ today = FirstToday
        /\ usersColl = [k \in 1..Len(Uids) |-> inp[Uids[k]].doc]
        /\ mealLogs = [u \in UidSet |-> inp[u].meals]
        /\ weightLogs = [u \in UidSet |-> inp[u].weights]
        /\ tdeeHistory = [u \in UidSet |-> inp[u].history]
        /\ weightForecast = [u \in UidSet |-> << >>]
        /\ job = JobInit
        /\ runs = 0
        /\ upc = "idle"
        /\ user = NoUser
        /\ pu = PuInit
        /\ outcome = [u \in UidSet |-> NoOutcome]
        /\ attempted = {}
        /\ readCkpt = [u \in UidSet |-> FALSE]
        /\ handed = [u \in UidSet |-> << >>]
        /\ prevRun = [u \in UidSet |-> << >>]

stores == <<usersColl, mealLogs, weightLogs>>

\* ------------------------------------------------------------------------
\* src/main.py: run_daily_job
\* ------------------------------------------------------------------------

\* asyncio.run(run_daily_job()): user_count = 0, the generator is created
JobStart ==
    /\ job.pc = "idle"
    /\ runs < MaxRuns
    /\ runs' = runs + 1
    /\ job' = [JobInit EXCEPT !.pc = "iter"]
    /\ attempted' = {}
    /\ UNCHANGED <<today, stores, tdeeHistory, weightForecast, upc, user, pu, outcome,
                   readCkpt, handed, prevRun>>

\* one turn of "async for user in get_all_users()": the generator stops (the
\* summary is logged), raises (nothing in run_daily_job catches it: the job dies
\* before the summary), or yields a user, for whom process_user is called
NextUser ==
    /\ job.pc = "iter"
    /\ upc = "idle"
    /\ LET r == get_all_users(job.gen)
       IN  CASE r.does = "stop" ->
                  /\ job' = [job EXCEPT !.pc = "done", !.gen = r.gen,
                                        !.summary = <<job.user_count>>]
                  /\ UNCHANGED <<upc, user, pu, outcome, attempted, readCkpt, handed>>
             [] r.does = "raise" ->
                  /\ job' = [job EXCEPT !.pc = "crashed", !.gen = r.gen]
                  /\ UNCHANGED <<upc, user, pu, outcome, attempted, readCkpt, handed>>
             [] r.does = "yield" ->
                  LET u == BuildUser(r.doc[1])
                  IN  /\ job' = [job EXCEPT !.pc = "in_user", !.gen = r.gen,
                                            !.user_count = job.user_count + 1]
                      /\ user' = u
                      /\ upc' = "check"
                      /\ pu' = [PuInit EXCEPT !.hist0 = tdeeHistory[u.uid]]
                      /\ outcome' = [outcome EXCEPT ![u.uid] = NoOutcome]
                      /\ attempted' = attempted \cup {u.uid}
                      /\ readCkpt' = [readCkpt EXCEPT ![u.uid] = FALSE]
                      /\ handed' = [handed EXCEPT ![u.uid] = << >>]
    /\ UNCHANGED <<today, stores, tdeeHistory, weightForecast, runs, prevRun>>

\* the job is run again, the same day or the next
NewDay ==
    /\ job.pc \in {"done", "crashed"}
    /\ runs < MaxRuns
    /\ \E k \in 0..1 : today' = today + k
    /\ job' = [job EXCEPT !.pc = "idle"]
    /\ UNCHANGED <<stores, tdeeHistory, weightForecast, runs, upc, user, pu, outcome,
                   attempted, readCkpt, handed, prevRun>>

\* ------------------------------------------------------------------------
\* src/main.py: process_user
\* ------------------------------------------------------------------------

\* The call ends: it returned ("skipped", "completed") or raised; run_daily_job
\* catches every Exception of process_user, logs it and goes on.
EndCall(f, result, at) ==
    /\ upc' = "idle"
    /\ pu' = f
    /\ job' = [job EXCEPT !.pc = "iter"]
    /\ outcome' = [outcome EXCEPT ![user.uid] =
                     [result |-> result, at |-> at, saved |-> f.saved, hist0 |-> f.hist0]]
    /\ prevRun' = IF f.entered
                  THEN [prevRun EXCEPT ![user.uid] =
                          <<[start |-> f.start_date, end |-> f.processing_end_date,
                             result |-> result, at |-> at, saved |-> f.saved]>>]
                  ELSE prevRun

Falsy(opt) == opt = << >>

\* lines 59-69.  The list handed to all() is built first: user.profile.sex raises
\* AttributeError when user.profile is None, and user.current_weight_kg raises it
\* when the object has no such attribute.
ProfileCheck ==
    /\ upc = "check"
    /\ IF user.profile = NoProfile
       THEN EndCall(pu, "raised", "main.py:62")
       ELSE IF ~user.has_current_weight_kg
       THEN EndCall(pu, "raised", "main.py:65")
       ELSE IF \/ Falsy(user.profile[1].sex) \/ Falsy(user.profile[1].age)
               \/ Falsy(user.profile[1].height_cm)
               \/ Falsy(user.current_weight_kg)
               \/ FEq(user.current_weight_kg[1], Kg(0, 1))
       THEN EndCall(pu, "skipped", "main.py:69")
       ELSE /\ upc' = "load"
            /\ UNCHANGED <<pu, job, outcome, prevRun>>
    /\ UNCHANGED <<today, stores, tdeeHistory, weightForecast, runs, user, attempted,
                   readCkpt, handed>>

ProcessingEndDate(t) == t - 2

\* line 81: a user without history starts at the creation date
FirstStartDate(u) == u.created_at

\* line 75: the day after the last record
NextStartDate(last_history) == last_history.date + 1

\* lines 71-82: the checkpoint.  A stored record is validated as a TDEEHistory
\* (get_last_tdee_history raises if that fails); last_history.date.date() then
\* needs a datetime.
LoadCheckpoint ==
    /\ upc = "load"
    /\ readCkpt' = [readCkpt EXCEPT ![user.uid] = TRUE]
    /\ LET last == get_last_tdee_history(user.uid)
           end_date == ProcessingEndDate(today)
       IN  CASE last.does = "raise" ->
                  EndCall(pu, "raised", "firestore.py:133")
             [] last.does = "return" /\ TDEEHistoryDateType # "datetime" ->
                  EndCall(pu, "raised", "main.py:75")
             [] last.does = "return" /\ TDEEHistoryDateType = "datetime" ->
                  /\ pu' = [pu EXCEPT
                        !.processing_end_date = end_date,
                        !.start_date = NextStartDate(last.doc[1]),
                        !.state = <<last.doc[1].estimatedWeightKg,
                                    last.doc[1].estimatedTdeeKcal>>,
                        !.covariance = Reshape22(last.doc[1].covarianceMatrix),
                        !.entered = TRUE]
                  /\ upc' = "range"
                  /\ UNCHANGED <<job, outcome, prevRun>>
             [] last.does = "none" ->
                  /\ pu' = [pu EXCEPT
                        !.processing_end_date = end_date,
                        !.start_date = FirstStartDate(user),
                        !.state = get_initial_state(user).state,
                        !.covariance = get_initial_state(user).covariance,
                        !.entered = TRUE]
                  /\ upc' = "range"
                  /\ UNCHANGED <<job, outcome, prevRun>>
    /\ UNCHANGED <<today, stores, tdeeHistory, weightForecast, runs, user, attempted,
                   handed>>

\* lines 84-99: up to date (forecast only), or the two series are read and the
\* day loop starts
BeginRange ==
    /\ upc = "range"
    /\ IF pu.start_date > pu.processing_end_date
       THEN /\ upc' = "forecast"
            /\ pu' = pu
       ELSE /\ upc' = "loop"
            /\ pu' = [pu EXCEPT
                  !.caloric_data = get_caloric_intake_for_date_range(
                        user.uid, pu.start_date - 91, pu.processing_end_date),
                  !.weight_data = get_weight_logs_for_date_range(
                        user.uid, pu.start_date, pu.processing_end_date),
                  !.current_date = pu.start_date,
                  !.daily_updates = << >>]
    /\ UNCHANGED <<today, stores, tdeeHistory, weightForecast, job, runs, user, outcome,
                   attempted, readCkpt, handed, prevRun>>

\* line 100, and lines 142-143 when the loop is over: the one batch save
LoopHead ==
    /\ upc = "loop"
    /\ IF pu.current_date <= pu.processing_end_date
       THEN /\ upc' = "impute"
            /\ pu' = pu
            /\ UNCHANGED tdeeHistory
       ELSE /\ upc' = "forecast"
            /\ tdeeHistory' = save_tdee_history_batch(tdeeHistory, pu.daily_updates)
            /\ pu' = [pu EXCEPT !.saved = pu.daily_updates # << >>]
    /\ UNCHANGED <<today, stores, weightForecast, job, runs, user, outcome, attempted,
                   readCkpt, handed, prevRun>>

\* lines 101-110
ImputeIntake ==
    /\ upc = "impute"
    /\ pu' = [pu EXCEPT !.prev_day_intake =
                 ResolveIntake(pu.caloric_data, pu.current_date - 1, pu.state[2])]
    /\ upc' = "predict"
    /\ UNCHANGED <<today, stores, tdeeHistory, weightForecast, job, runs, user, outcome,
                   attempted, readCkpt, handed, prevRun>>

\* lines 112-113
PredictStep ==
    /\ upc = "predict"
    /\ pu' = [pu EXCEPT !.estimator =
                 predict(TDEEEstimator(pu.state, pu.covariance), pu.prev_day_intake)]
    /\ upc' = "measure"
    /\ UNCHANGED <<today, stores, tdeeHistory, weightForecast, job, runs, user, outcome,
                   attempted, readCkpt, handed, prevRun>>

\* a driver that raises the flag on the days that have a measurement
UpdateStep_FlagsMeasured ==
    /\ upc = "measure"
    /\ IF pu.current_date \in DOMAIN pu.weight_data
       THEN IF UpdateRaises(pu.estimator)
            THEN EndCall(pu, "raised", "tdee_estimator.py:85")
            ELSE /\ pu' = [pu EXCEPT
                       !.is_prediction = TRUE,
                       !.estimator = update(pu.estimator, pu.weight_data[pu.current_date])]
                 /\ upc' = "record"
                 /\ UNCHANGED <<job, outcome, prevRun>>
       ELSE /\ pu' = [pu EXCEPT !.is_prediction = FALSE]
            /\ upc' = "record"
            /\ UNCHANGED <<job, outcome, prevRun>>
    /\ UNCHANGED <<today, stores, tdeeHistory, weightForecast, runs, user, attempted,
                   readCkpt, handed>>

\* lines 115-118: update when a weight is logged for the day
UpdateStep ==
    /\ upc = "measure"
    /\ IF pu.current_date \in DOMAIN pu.weight_data
       THEN IF UpdateRaises(pu.estimator)
            THEN EndCall(pu, "raised", "tdee_estimator.py:85")
            ELSE /\ pu' = [pu EXCEPT
                       !.is_prediction = FALSE,
                       !.estimator = update(pu.estimator, pu.weight_data[pu.current_date])]
                 /\ upc' = "record"
                 /\ UNCHANGED <<job, outcome, prevRun>>
       ELSE /\ pu' = [pu EXCEPT !.is_prediction = TRUE]
            /\ upc' = "record"
            /\ UNCHANGED <<job, outcome, prevRun>>
    /\ UNCHANGED <<today, stores, tdeeHistory, weightForecast, runs, user, attempted,
                   readCkpt, handed>>

\* lines 126-139: TDEEHistory(...), validated on construction
NewHistoryEntry(u, f) ==
    LET bounds == get_bounds(f.estimator)
        st == f.estimator.state
    IN  [uid |-> u.uid, date |-> f.current_date,
         estimatedTdeeKcal |-> st[2],
         lowerBoundKcal |-> bounds[1], upperBoundKcal |-> bounds[2],
         isPrediction |-> f.is_prediction,
         estimatedWeightKg |-> st[1],
         activityMultiplier |->
            FDiv(st[2], calculate_mifflin_st_jeor_bmr(
                            u.profile[1].sex[1], u.profile[1].age[1],
                            u.profile[1].height_cm[1], st[1])),
         covarianceMatrix |-> Flatten(f.estimator.covariance)]

\* a driver that commits each day's record as soon as it is computed
RecordDay_SaveEachDay ==
    /\ upc = "record"
    /\ LET f == [pu EXCEPT !.state = pu.estimator.state,
                           !.covariance = pu.estimator.covariance]
           entry == NewHistoryEntry(user, f)
       IN  /\ tdeeHistory' = save_tdee_history_batch(tdeeHistory, <<entry>>)
           /\ IF ~TDEEHistoryCovarianceValid(entry.covarianceMatrix)
              THEN EndCall(f, "raised", "main.py:126")
              ELSE /\ pu' = [f EXCEPT !.daily_updates = Append(f.daily_updates, entry),
                                      !.current_date = f.current_date + 1]
                   /\ upc' = "loop"
                   /\ UNCHANGED <<job, outcome, prevRun>>
    /\ UNCHANGED <<today, stores, weightForecast, runs, user, attempted,
                   readCkpt, handed>>

\* lines 120-141: the day's record.  The constructor raises ValidationError when
\* the covariance does not fit the declared type.
RecordDay ==
    /\ upc = "record"
    /\ LET f == [pu EXCEPT !.state = pu.estimator.state,
                           !.covariance = pu.estimator.covariance]
           entry == NewHistoryEntry(user, f)
       IN  IF ~TDEEHistoryCovarianceValid(entry.covarianceMatrix)
           THEN EndCall(f, "raised", "main.py:126")
           ELSE /\ pu' = [f EXCEPT !.daily_updates = Append(f.daily_updates, entry),
                                   !.current_date = f.current_date + 1]
                /\ upc' = "loop"
                /\ UNCHANGED <<job, outcome, prevRun>>
    /\ UNCHANGED <<today, stores, tdeeHistory, weightForecast, runs, user, attempted,
                   readCkpt, handed>>

\* lines 147-184: the intake of each of the 14 forecast days
ForecastIntakes(u, processing_end_date, state) ==
    LET caloric_data == get_caloric_intake_for_date_range(
              u.uid, processing_end_date - 90, processing_end_date)
        goal == assumed_intake_goal(u)
        final_daily_averages == DayOfWeekAverages(caloric_data, processing_end_date,
                                                  state[2])
    IN  [k \in 1..14 |->
            IF goal # << >> THEN goal[1]
            ELSE final_daily_averages[weekday(processing_end_date + k) + 1]]

\* lines 177-186: the estimator after each forecast step, one predict a day
RECURSIVE ForecastTrajectory(_, _)
ForecastTrajectory(est, intakes) ==
    IF intakes = << >> THEN << >>
    ELSE LET next == predict(est, Head(intakes))
         IN  <<next>> \o ForecastTrajectory(next, Tail(intakes))

\* lines 146-175: the forecast's inputs; the estimator starts from the driver's
\* final (state, covariance)
ForecastPrepare ==
    /\ upc = "forecast"
    /\ LET caloric_data == get_caloric_intake_for_date_range(
                user.uid, pu.processing_end_date - 90, pu.processing_end_date)
           goal == assumed_intake_goal(user)
       IN  pu' = [pu EXCEPT
                !.caloric_data = caloric_data,
                !.final_daily_averages =
                    IF goal # << >> THEN << >>
                    ELSE DayOfWeekAverages(caloric_data, pu.processing_end_date,
                                           pu.state[2]),
                !.estimator = TDEEEstimator(pu.state, pu.covariance),
                !.future_forecasts = << >>,
                !.i = 0]
    /\ handed' = [handed EXCEPT ![user.uid] =
                    <<[state |-> pu.state, covariance |-> pu.covariance]>>]
    /\ upc' = "fstep"
    /\ UNCHANGED <<today, stores, tdeeHistory, weightForecast, job, runs, user, outcome,
                   attempted, readCkpt, prevRun>>

\* lines 177-204: one turn of "for i in range(14)", and the save after the last.
\* forecast_estimator.get_weight_bounds and fs.save_weight_forecast are looked up
\* when they are called.
ForecastStep ==
    /\ upc = "fstep"
    /\ IF pu.i < 14
       THEN LET prediction_date == pu.processing_end_date + 1 + pu.i
                goal == assumed_intake_goal(user)
                intake_for_day == IF goal # << >> THEN goal[1]
                                  ELSE pu.final_daily_averages[weekday(prediction_date) + 1]
                est == predict(pu.estimator, intake_for_day)
                f == [pu EXCEPT !.estimator = est, !.intake_for_day = intake_for_day]
            IN  IF ~HasGetWeightBounds
                THEN /\ EndCall(f, "raised", "main.py:189")
                     /\ UNCHANGED weightForecast
                ELSE /\ pu' = [f EXCEPT
                           !.future_forecasts = Append(pu.future_forecasts,
                                [date |-> prediction_date,
                                 predictedWeightKg |-> est.state[1],
                                 lowerBoundKg |-> get_weight_bounds(est)[1],
                                 upperBoundKg |-> get_weight_bounds(est)[2]]),
                           !.i = pu.i + 1]
                     /\ UNCHANGED <<upc, job, outcome, prevRun, weightForecast>>
       ELSE IF ~HasSaveWeightForecast
            THEN /\ EndCall(pu, "raised", "main.py:204")
                 /\ UNCHANGED weightForecast
            ELSE /\ weightForecast' =
                        save_weight_forecast(weightForecast, user.uid, pu.future_forecasts)
                 /\ EndCall(pu, "completed", "main.py:204")
    /\ UNCHANGED <<today, stores, tdeeHistory, runs, user, attempted, readCkpt, handed>>

Next ==
    \/ JobStart
    \/ NextUser
    \/ NewDay
    \/ ProfileCheck
    \/ LoadCheckpoint
    \/ BeginRange
    \/ LoopHead
    \/ ImputeIntake
    \/ PredictStep
    \/ UpdateStep
    \/ RecordDay
    \/ ForecastPrepare
    \/ ForecastStep

Spec == Init /\ [][Next]_vars

\* ------------------------------------------------------------------------
\* Properties
\* ------------------------------------------------------------------------

\* the cutoff of the job run in progress
cutoff == ProcessingEndDate(today)

\* process_user has just ended for u, in the job run in progress
JustEnded(u) ==
    /\ upc = "idle"
    /\ job.pc = "iter"
    /\ user.uid = u
    /\ u \in attempted
    /\ outcome[u].result # "none"

\* C1 (as stated): a failure for one user record, in process_user or while
\* get_all_users fetches and builds it, never stops the batch: a job run that has
\* ended has attempted every user of the store and has logged the summary, with a
\* count equal to the number of users in the store.
C1_BatchNeverStops ==
    job.pc \in {"done", "crashed"} =>
        /\ job.pc = "done"
        /\ attempted = UidSet
        /\ job.summary = <<Len(usersColl)>>

\* the last record of the history the call found, and its date
LastOf(h) == h[MaxOf(DOMAIN h)]

\* C3 (as stated): when process_user has run for a user whose last history record
\* is dated at or after the cutoff, the day loop made no iteration, no history
\* record was written, and the (state, covariance) handed to the forecast stage
\* is the one stored in that last record.
C3_UpToDatePassesThrough ==
    \A u \in UidSet :
        (/\ JustEnded(u)
         /\ readCkpt[u]
         /\ DOMAIN outcome[u].hist0 # {}
         /\ LastOf(outcome[u].hist0).date >= cutoff)
        => /\ pu.daily_updates = << >>
           /\ tdeeHistory[u] = outcome[u].hist0
           /\ handed[u] =
                <<[state |-> <<LastOf(outcome[u].hist0).estimatedWeightKg,
                               LastOf(outcome[u].hist0).estimatedTdeeKcal>>,
                   covariance |-> Reshape22(LastOf(outcome[u].hist0).covarianceMatrix)]>>

DatesOf(records) == [k \in 1..Len(records) |-> records[k].date]

\* C5 (as stated): a run for a user with a checkpoint dated c before the cutoff e
\* emits one record for each date c+1, ..., e, in that order, and no other.
C5_EveryDayEmitted ==
    \A u \in UidSet :
        (/\ JustEnded(u)
         /\ readCkpt[u]
         /\ DOMAIN outcome[u].hist0 # {}
         /\ LastOf(outcome[u].hist0).date < cutoff)
        => DatesOf(pu.daily_updates) =
              [k \in 1..(cutoff - LastOf(outcome[u].hist0).date) |->
                  LastOf(outcome[u].hist0).date + k]

\* C6 (as stated): a run that has passed the profile check ends with a forecast
\* of 14 records stored for the user, one per date from cutoff+1 on, which is the
\* forecast the run computed.
C6_ForecastPersisted ==
    \A u \in UidSet :
        (JustEnded(u) /\ readCkpt[u])
        => /\ outcome[u].result = "completed"
           /\ Len(weightForecast[u]) = 14
           /\ \A k \in 1..14 : weightForecast[u][k].date = cutoff + k
           /\ weightForecast[u] = pu.future_forecasts

\* C7 (as stated): a run goes on after a predict or an update only with a finite
\* state and covariance (a degenerate step is detected and the run aborted), and
\* no stored history record holds a non-finite state.
C7_DegenerateStepAborts ==
    /\ upc \in {"measure", "record"} =>
          /\ IsFinite(pu.estimator.state[1])
          /\ IsFinite(pu.estimator.state[2])
          /\ MatFinite(pu.estimator.covariance)
    /\ \A u \in UidSet : \A d \in DOMAIN tdeeHistory[u] :
          /\ IsFinite(tdeeHistory[u][d].estimatedWeightKg)
          /\ IsFinite(tdeeHistory[u][d].estimatedTdeeKcal)

\* the user object lacks a required profile input
LacksRequiredInput(u) ==
    \/ u.profile = NoProfile
    \/ Falsy(u.profile[1].sex) \/ Falsy(u.profile[1].age) \/ Falsy(u.profile[1].height_cm)
    \/ ~u.has_current_weight_kg
    \/ Falsy(u.current_weight_kg)

\* C8 (as stated): for a user who lacks a required profile input (no profile, or
\* no sex, age, height or current weight) process_user returns, skipping the
\* user, without having read the checkpoint or written history or forecast.
C8_MissingInputSkips ==
    \A u \in UidSet :
        (JustEnded(u) /\ LacksRequiredInput(user))
        => /\ outcome[u].result = "skipped"
           /\ ~readCkpt[u]
           /\ tdeeHistory[u] = outcome[u].hist0
           /\ weightForecast[u] = << >>

\* a dict without an entry for day p, and with the entry v for day p
Without(cd, p) == [d \in DOMAIN cd \ {p} |-> cd[d]]
WithValue(cd, p, v) == [d \in DOMAIN cd \cup {p} |-> IF d = p THEN v ELSE cd[d]]

\* below the plausibility threshold of a last known TDEE t
BelowThreshold(v, t) == FLess(v, FMul(t, Frac(3, 5)))

\* some positive intakes below the threshold of t
LowIntakes(t) ==
    {v \in {Kcal(1), Kcal(1000), FMul(t, Frac(1, 2))} :
        FLess(Zero, v) /\ BelowThreshold(v, t)}

\* C9: for the day's target date, last known TDEE and logged intakes, the
\* imputer gives one and the same value with the target date's intake absent,
\* zero, or positive and below the threshold, a value computed from the other
\* dates only; and it is the value fed to predict when the day is such a case.
C9_OneFallbackValue ==
    upc = "predict" =>
        LET cd == pu.caloric_data
            p == pu.current_date - 1
            t == pu.state[2]
            absent == ResolveIntake(Without(cd, p), p, t)
            logged == CaloricGet(cd, p)
        IN  /\ ResolveIntake(WithValue(cd, p, Zero), p, t) = absent
            /\ \A v \in LowIntakes(t) : ResolveIntake(WithValue(cd, p, v), p, t) = absent
            /\ (\/ logged = << >>
                \/ logged[1] = Zero
                \/ FLess(Zero, logged[1]) /\ BelowThreshold(logged[1], t))
               => pu.prev_day_intake = absent

\* C9, its case: the target date's intake is positive and below the threshold,
\* other intakes lie in the trailing window, and predict is fed their mean
C9_Witness ==
    /\ upc = "predict"
    /\ LET cd == pu.caloric_data
           p == pu.current_date - 1
           t == pu.state[2]
       IN  /\ p \in DOMAIN cd
           /\ FLess(Zero, cd[p])
           /\ BelowThreshold(cd[p], t)
           /\ LowIntakes(t) # {}
           /\ pu.prev_day_intake # cd[p]
           /\ pu.prev_day_intake # t

\* C10 (as stated): predict is fed the logged value when one is logged for the
\* date, is strictly positive and is not below the threshold, and the fallback
\* value in every other case.
C10_LoggedIffPlausible ==
    upc = "predict" =>
        LET cd == pu.caloric_data
            p == pu.current_date - 1
            t == pu.state[2]
            logged == CaloricGet(cd, p)
            usable == /\ logged # << >>
                      /\ FLess(Zero, logged[1])
                      /\ ~BelowThreshold(logged[1], t)
        IN  IF usable
            THEN pu.prev_day_intake = logged[1]
            ELSE pu.prev_day_intake = _get_fallback_intake(cd, p, t)

\* the dates of the 7 days before p that log a strictly positive intake
TrailingPositive(cd, p) ==
    {d \in (p - 7)..(p - 1) : d \in DOMAIN cd /\ FLess(Zero, cd[d])}

\* the sum of the intakes of the days S
RECURSIVE SumOver(_, _)
SumOver(cd, S) ==
    IF S = {} THEN Zero
    ELSE LET d == CHOOSE x \in S : TRUE
         IN  FAdd(cd[d], SumOver(cd, S \ {d}))

\* C11: the fallback intake for a target date is the arithmetic mean of the
\* strictly positive intakes logged on the 7 days before it (the target date
\* excluded: fallback times their number is their sum), and the last known TDEE
\* when there is none.
C11_FallbackIsTrailingMean ==
    upc = "predict" =>
        LET cd == pu.caloric_data
            p == pu.current_date - 1
            t == pu.state[2]
            W == TrailingPositive(cd, p)
            fallback == _get_fallback_intake(cd, p, t)
        IN  IF W = {}
            THEN fallback = t
            ELSE FMul(fallback, Frac(Cardinality(W), 1)) = SumOver(cd, W)

\* C11, its case: the fallback is fed to predict and is the mean of the two
\* days of the window that log a positive intake
C11_Witness ==
    /\ upc = "predict"
    /\ LET cd == pu.caloric_data
           p == pu.current_date - 1
           t == pu.state[2]
       IN  /\ Cardinality(TrailingPositive(cd, p)) = 2
           /\ pu.prev_day_intake = _get_fallback_intake(cd, p, t)
           /\ pu.prev_day_intake # t
           /\ pu.prev_day_intake # cd[p]

\* a (state, covariance) of the driver is at hand: the day's, once predict and
\* update are done, or the one the forecast stage has just been given
DriverStateAtHand ==
    \/ upc = "record"
    \/ upc = "fstep" /\ pu.i = 0

\* the weight variance never decreases along the estimators of traj
BandNeverNarrows(traj) ==
    \A k \in 1..(Len(traj) - 1) :
        FLeq(traj[k].covariance[1][1], traj[k + 1].covariance[1][1])

\* forecast steps followed from a state a weight measurement has corrected: its
\* covariance has denominators that leave TLC's integers room for no more
MeasuredSteps == 12

\* the number of forecast steps followed from the state at hand
StepsFollowed == IF upc = "record" /\ ~pu.is_prediction THEN MeasuredSteps ELSE 14

UpdateDays == 3

\* update leaves neither diagonal entry of est's covariance greater than it was
UpdateShrinks(est, post) ==
    /\ FLeq(post.covariance[1][1], est.covariance[1][1])
    /\ FLeq(post.covariance[2][2], est.covariance[2][2])

\* the estimator the day's update was called on: the day's predict, redone
PredictedToday ==
    predict(TDEEEstimator(pu.state, pu.covariance), pu.prev_day_intake)

\* C13: with the measurement noise R > 0, update leaves neither the weight
\* variance P[0,0] nor the TDEE variance P[1,1] greater than it was before the
\* update: for the update the driver has just made, and for an update of the
\* day's predicted covariance and of the covariances that follow it after
\* further days without a measurement (the measurement, which the covariance
\* does not depend on, is taken equal to the predicted weight).
C13_UpdateNeverWidens ==
    /\ FLess(Zero, R)
    /\ (upc = "record" /\ ~pu.is_prediction) =>
          UpdateShrinks(PredictedToday, pu.estimator)
    /\ upc = "measure" =>
          LET est == pu.estimator
              later == ForecastTrajectory(est, [k \in 1..UpdateDays |-> est.state[2]])
          IN  /\ UpdateShrinks(est, update(est, est.state[1]))
              /\ \A k \in 1..UpdateDays :
                    UpdateShrinks(later[k], update(later[k], later[k].state[1]))

\* C13, its case: the driver has made an update, and both variances are
\* smaller than predict left them
C13_Witness ==
    /\ upc = "record"
    /\ ~pu.is_prediction
    /\ FLess(pu.estimator.covariance[1][1], PredictedToday.covariance[1][1])
    /\ FLess(pu.estimator.covariance[2][2], PredictedToday.covariance[2][2])

\* the intake goal the user has declared: the daily energy target, if any
DeclaredGoal(u) ==
    IF u.nutrition_targets = << >> THEN << >> ELSE u.nutrition_targets[1].energy

\* the strictly positive intakes of the 91 days up to the cutoff e that fall on
\* the weekday of day d
SameWeekday(cd, e, d) ==
    {x \in DOMAIN cd : FLess(Zero, cd[x]) /\ e - x <= 90 /\ (d - x) % 7 = 0}

\* C14 (as stated): a forecast step is fed the user's declared intake goal when
\* there is one; when there is none it is fed the mean of the positive intakes
\* logged on the day's weekday, or the TDEE estimate if there is none.
C14_GoalIsFed ==
    \A u \in UidSet :
        (JustEnded(u) /\ outcome[u].at = "main.py:189")
        => LET e == pu.processing_end_date
               d == e + 1 + pu.i
               cd == pu.caloric_data
               W == SameWeekday(cd, e, d)
           IN  IF DeclaredGoal(user) # << >>
               THEN pu.intake_for_day = DeclaredGoal(user)[1]
               ELSE IF W = {}
               THEN pu.intake_for_day = pu.state[2]
               ELSE FMul(pu.intake_for_day, Frac(Cardinality(W), 1)) = SumOver(cd, W)

\* the processed day has a weight measurement
MeasuredToday == pu.current_date \in DOMAIN pu.weight_data

\* the estimator the day's record is to be read from: the day's one predict,
\* followed by the update on the day's measurement when there is one
EstimatorOfTheDay ==
    IF MeasuredToday
    THEN update(PredictedToday, pu.weight_data[pu.current_date])
    ELSE PredictedToday

RECURSIVE RunDays(_, _, _, _, _)
RunDays(est, d, e, cd, wd) ==
    IF d > e THEN << >>
    ELSE LET predicted == predict(est, ResolveIntake(cd, d - 1, est.state[2]))
             next == IF d \in DOMAIN wd THEN update(predicted, wd[d]) ELSE predicted
         IN  <<next>> \o RunDays(next, d + 1, e, cd, wd)

\* the run of u from its creation date to the cutoff in one go
WholeRange(u) ==
    RunDays(get_initial_state(u), u.created_at, cutoff,
            get_caloric_intake_for_date_range(u.uid, u.created_at - 91, cutoff),
            get_weight_logs_for_date_range(u.uid, u.created_at, cutoff))

\* a second run of the user in hand is under way: an earlier run started at the
\* creation date and had days to process, and the cutoff has moved on since
SecondRunUnderWay ==
    /\ upc # "idle"
    /\ pu.entered
    /\ prevRun[user.uid] # << >>
    /\ prevRun[user.uid][1].start = user.created_at
    /\ prevRun[user.uid][1].start <= prevRun[user.uid][1].end
    /\ prevRun[user.uid][1].end < cutoff

\* C16 (as stated): when a first run has processed a user's days up to its cutoff
\* and a second run goes on from the last stored record, the stored records and
\* the (state, covariance) the second run starts from and ends with are those of
\* one run over the whole range, and the flat covariance of each stored record
\* reads back as the 2x2 matrix it was written from.
C16_TwoRunsAsOne ==
    SecondRunUnderWay =>
        LET u == user.uid
            first == user.created_at
            mid == prevRun[u][1].end
        IN  /\ first..mid \subseteq DOMAIN tdeeHistory[u]
            /\ pu.start_date = mid + 1
            /\ \A d \in DOMAIN tdeeHistory[u] :
                  LET est == WholeRange(user)[d - first + 1]
                      doc == tdeeHistory[u][d]
                  IN  /\ doc.covarianceMatrix = Flatten(est.covariance)
                      /\ TDEEHistoryCovarianceValid(doc.covarianceMatrix)
                      /\ Reshape22(doc.covarianceMatrix) = est.covariance
                      /\ <<doc.estimatedWeightKg, doc.estimatedTdeeKcal>> = est.state
            /\ upc = "range" =>
                  LET est == WholeRange(user)[mid - first + 1]
                  IN  pu.state = est.state /\ pu.covariance = est.covariance
            /\ upc = "forecast" =>
                  LET est == WholeRange(user)[cutoff - first + 1]
                  IN  /\ DOMAIN tdeeHistory[u] = first..cutoff
                      /\ pu.state = est.state /\ pu.covariance = est.covariance

=============================================================================
